---- MODULE Spec2Model ----
(***************************************************************************)
(* A model of thoth-adviser's pipeline units (the boot                     *)
(* FullySpecifiedEnvironment, the wrap SortJustificationsWrap) and of the  *)
(* command line workflows provenance, advise and dependency-monkey.        *)
(*                                                                         *)
(* Python strings that the code compares or converts are sequences of      *)
(* character codes; strings that are only passed around are TLA+ strings.  *)
(***************************************************************************)
EXTENDS Integers, Sequences, FiniteSets, TLC

VARIABLES
    \* ---- pipeline units (SpecUnits) ----
    builder_kind,   \* the kind of pipeline the builder context assembles
    pipeline,       \* the unit instances registered so far, in order
    last_call,      \* the last should_include call and what it yielded
    phase,          \* "build", "search", "wraps", "emitted", "aborted", "failed"
    stack_info,     \* context.stack_info
    boot_signal,    \* what the boots phase raised, NoExc when nothing
    boot_env,       \* the runtime environment the boots ran on, None before
    state,          \* the accepted State the wraps run on
    accepted,       \* that State as it was when accepted
    wrap_index,     \* number of registered wraps already run on the state
    reruns,         \* further applications of the wrap to the emitted state
    after_first,    \* the justification log after the first run
    \* ---- command line workflows (Spec) ----
    cmd,            \* the command invoked
    args,           \* its arguments, and what its collaborators will answer
    pc,             \* "start", "loop", "print", "returned", "raised", "idle"
    result,         \* the result envelope
    raised,         \* the exception raised inside the workflow, NoExc when none
    uncaught,       \* the exception that left the command uncaught, NoExc when none
    ret,            \* the command's return value, None until it returns
    printed,        \* what print_command_result was called with
    dm,             \* dependency_monkey's locals: count, context, output_function
    computed,       \* dependency_monkey's counter
    walker_calls,   \* how many times the walker was advanced
    sink_calls,     \* the calls of the output function
    fs_dirs         \* the directories on the filesystem

unit_vars == <<builder_kind, pipeline, last_call, phase, stack_info,
               boot_signal, boot_env, state, accepted, wrap_index, reruns, after_first>>

cli_vars == <<cmd, args, pc, result, raised, uncaught, ret, printed, dm, computed,
              walker_calls, sink_calls, fs_dirs>>

vars == <<unit_vars, cli_vars>>

\* ------------------------------------------------------------------ bounds

MaxLog == 3        \* longest justification log of an accepted state
MaxUnits == 3      \* longest pipeline the builder assembles
MaxReruns == 2     \* further applications of the wrap to an emitted state
MaxSpace == 3      \* most combinations the walker has to yield
MaxCount == 3      \* largest --count given
MaxReport == 2     \* longest report a successful advise or provenance check returns

\* ------------------------------------------------------------ Python values

\* Optional values: None, or Some(x).
None == <<>>
Some(x) == <<x>>

NoExc == [cls |-> "none", msg |-> <<>>]

\* No envelope yet, and no locals yet.
NoResult == [error |-> None, report |-> <<>>]
NoLocals == [count |-> None, context |-> "", output_function |-> "none"]

Min(a, b) == IF a < b THEN a ELSE b

\* str.__lt__: lexicographic order on the character codes.
RECURSIVE StrLess(_, _)
StrLess(a, b) ==
    IF b = <<>> THEN FALSE
    ELSE IF a = <<>> THEN TRUE
    ELSE IF a[1] < b[1] THEN TRUE
    ELSE IF a[1] > b[1] THEN FALSE
    ELSE StrLess(Tail(a), Tail(b))

\* tuple.__lt__ on the 3-tuples of strings the sort key is made of.
TupleLess(k1, k2) ==
    IF k1[1] # k2[1] THEN StrLess(k1[1], k2[1])
    ELSE IF k1[2] # k2[2] THEN StrLess(k1[2], k2[2])
    ELSE StrLess(k1[3], k2[3])

S_empty == <<>>
S_a == <<97>>
S_ERROR == <<69, 82, 82, 79, 82>>
S_INFO == <<73, 78, 70, 79>>
S_WARNING == <<87, 65, 82, 78, 73, 78, 71>>
S_m1 == <<109, 49>>
S_m2 == <<109, 50>>

\* The justification entries of the model: package_name is optional, and the
\* first two entries have equal sort keys without being equal.
JustificationEntries ==
    { [type |-> S_ERROR, message |-> S_m1],
      [package_name |-> S_empty, type |-> S_ERROR, message |-> S_m1],
      [package_name |-> S_a, type |-> S_ERROR, message |-> S_m1],
      [package_name |-> S_a, type |-> S_INFO, message |-> S_m1],
      [package_name |-> S_a, type |-> S_ERROR, message |-> S_m2],
      [type |-> S_WARNING, message |-> S_m2] }

RECURSIVE SeqsUpTo(_, _)
SeqsUpTo(S, n) ==
    IF n = 0 THEN {<<>>}
    ELSE LET shorter == SeqsUpTo(S, n - 1)
         IN shorter \cup {Append(s, x) : s \in {t \in shorter : Len(t) = n - 1}, x \in S}

\* ------------------------------------------------- SortJustificationsWrap

\* lambda i: (i.get("package_name", ""), i["type"], i["message"])
sort_key(i) ==
    << IF "package_name" \in DOMAIN i THEN i.package_name ELSE S_empty,
       i.type,
       i.message >>

\* i["type"] and i["message"] raise KeyError on an entry without the key, and
\* list.sort then leaves the list as it was.
sort_key_raises(log) ==
    \E i \in 1..Len(log) : ~({"type", "message"} \subseteq DOMAIN log[i])

\* A plausible slip: an entry equal to one already placed is dropped, as
\* sorting a set of the entries would.
RECURSIVE InsertUnique(_, _)
InsertUnique(x, s) ==
    IF s = <<>> THEN <<x>>
    ELSE IF x = s[1] THEN s
    ELSE IF TupleLess(sort_key(x), sort_key(s[1])) THEN <<x>> \o s
    ELSE <<s[1]>> \o InsertUnique(x, Tail(s))

\* A plausible slip: an entry is placed in front of the entries that compare
\* equal to it, which makes the sort unstable.
RECURSIVE InsertBeforeEqual(_, _)
InsertBeforeEqual(x, s) ==
    IF s = <<>> THEN <<x>>
    ELSE IF ~TupleLess(sort_key(s[1]), sort_key(x)) THEN <<x>> \o s
    ELSE <<s[1]>> \o InsertBeforeEqual(x, Tail(s))

\* list.sort is stable: an entry goes behind every entry whose key is not
\* greater than its own.
RECURSIVE InsertStable(_, _)
InsertStable(x, s) ==
    IF s = <<>> THEN <<x>>
    ELSE IF TupleLess(sort_key(x), sort_key(s[1])) THEN <<x>> \o s
    ELSE <<s[1]>> \o InsertStable(x, Tail(s))

RECURSIVE list_sort(_)
list_sort(s) ==
    IF s = <<>> THEN <<>>
    ELSE InsertStable(s[Len(s)], list_sort(SubSeq(s, 1, Len(s) - 1)))

\* SortJustificationsWrap.run(state): sorts state.justification in place.
SortJustificationsWrap_run(st) ==
    [st EXCEPT !.justification = list_sort(st.justification)]

\* --------------------------------------------------- pipeline builder context

BootUnit == "FullySpecifiedEnvironment"
WrapUnit == "SortJustificationsWrap"

PipelineKinds == {"adviser", "dependency_monkey"}

\* The parameter-set a should_include yields here: the empty dict.
EmptyParams == <<>>

\* builder_context.is_adviser_pipeline()
is_adviser_pipeline(kind) == kind = "adviser"

\* builder_context.is_included(cls)
is_included(pipe, cls) == \E i \in 1..Len(pipe) : pipe[i].unit = cls

\* Pipeline assembly: one configured instance per yielded parameter-set,
\* appended in order.
RECURSIVE register(_, _, _)
register(pipe, cls, yielded) ==
    IF yielded = <<>> THEN pipe
    ELSE register(Append(pipe, [unit |-> cls, configuration |-> Head(yielded)]),
                  cls, Tail(yielded))

Instances(pipe, cls) == Cardinality({i \in 1..Len(pipe) : pipe[i].unit = cls})

\* ---------------------------------------------- FullySpecifiedEnvironment

\* A plausible slip: the class does not look at whether it is included already.
FullySpecifiedEnvironment_always(kind, pipe) ==
    IF is_adviser_pipeline(kind) THEN <<EmptyParams>> ELSE <<>>

\* FullySpecifiedEnvironment.should_include: the sequence of yielded parameter-sets.
FullySpecifiedEnvironment_should_include(kind, pipe) ==
    IF is_adviser_pipeline(kind) /\ ~is_included(pipe, BootUnit)
    THEN <<EmptyParams>>
    ELSE <<>>

\* The runtime environments of the model: each part known or None.
RuntimeEnvironments ==
    [os_name : {None, Some("rhel")}, os_version : {None, Some("8")},
     python_version : {None, Some("3.8")}]

\* runtime_environment.is_fully_specified()
is_fully_specified(env) ==
    env.os_name # None /\ env.os_version # None /\ env.python_version # None

\* The f-string of run(): the fixed text and the three values it formats.
not_fully_specified_msg(env) ==
    <<"Software environment supplied is not fully specified",
      env.os_name, env.os_version, env.python_version>>

\* A plausible slip: the boot records the error and returns instead of raising.
FullySpecifiedEnvironment_no_raise(env, info) ==
    IF ~is_fully_specified(env)
    THEN [stack_info |-> Append(info, [message |-> not_fully_specified_msg(env),
                                       type |-> "ERROR",
                                       link |-> "fully_specified_env"]),
          raised |-> NoExc]
    ELSE [stack_info |-> info, raised |-> NoExc]

\* A plausible slip: the boot raises without recording the error.
FullySpecifiedEnvironment_raise_only(env, info) ==
    IF ~is_fully_specified(env)
    THEN [stack_info |-> info,
          raised |-> [cls |-> "NotAcceptable", msg |-> not_fully_specified_msg(env)]]
    ELSE [stack_info |-> info, raised |-> NoExc]

\* FullySpecifiedEnvironment.run: the stack_info it leaves and what it raises.
FullySpecifiedEnvironment_run(env, info) ==
    IF ~is_fully_specified(env)
    THEN [stack_info |-> Append(info, [message |-> not_fully_specified_msg(env),
                                       type |-> "ERROR",
                                       link |-> "fully_specified_env"]),
          raised |-> [cls |-> "NotAcceptable", msg |-> not_fully_specified_msg(env)]]
    ELSE [stack_info |-> info, raised |-> NoExc]

\* ------------------------------------ SortJustificationsWrap.should_include

\* A plausible slip: the class does not look at whether it is included already.
SortJustificationsWrap_always(kind, pipe) == <<EmptyParams>>

\* SortJustificationsWrap.should_include: the sequence of yielded parameter-sets.
SortJustificationsWrap_should_include(kind, pipe) ==
    IF ~is_included(pipe, WrapUnit) THEN <<EmptyParams>> ELSE <<>>

\* ------------------------------------------------------ the units at work

NoCall == [unit |-> "none", was_included |-> FALSE, is_adviser |-> FALSE,
           yielded |-> <<>>, before |-> <<>>]

States ==
    [justification : SeqsUpTo(JustificationEntries, MaxLog),
     score : {0, 1},
     resolved : {<<"a", "1.0">>},
     unresolved : {<<>>}]

\* context.stack_info before the boots run: empty, or holding an entry that
\* was recorded earlier.
EarlierStackInfo ==
    { <<>>,
      << [message |-> <<"No observations">>, type |-> "INFO", link |-> "no_observations"] >> }

NoState == [justification |-> <<>>, score |-> 0, resolved |-> <<>>, unresolved |-> <<>>]

InitUnits ==
    /\ builder_kind \in PipelineKinds
    /\ pipeline = <<>>
    /\ last_call = NoCall
    /\ phase = "build"
    /\ stack_info \in EarlierStackInfo
    /\ boot_signal = NoExc
    /\ boot_env = None
    /\ state = NoState
    /\ accepted = NoState
    /\ wrap_index = 0
    /\ reruns = 0
    /\ after_first = <<>>
    /\ cmd = "none"
    /\ args = <<>>
    /\ pc = "idle"
    /\ result = NoResult
    /\ raised = NoExc
    /\ uncaught = NoExc
    /\ ret = None
    /\ printed = <<>>
    /\ dm = NoLocals
    /\ computed = 0
    /\ walker_calls = 0
    /\ sink_calls = <<>>
    /\ fs_dirs = {}

\* The builder asks the boot class whether to include it and registers what
\* it yields.
BootShouldInclude ==
    /\ phase = "build"
    /\ Len(pipeline) < MaxUnits
    /\ LET yielded == FullySpecifiedEnvironment_should_include(builder_kind, pipeline)
       IN /\ pipeline' = register(pipeline, BootUnit, yielded)
          /\ last_call' = [unit |-> BootUnit,
                           was_included |-> is_included(pipeline, BootUnit),
                           is_adviser |-> is_adviser_pipeline(builder_kind),
                           yielded |-> yielded,
                           before |-> pipeline]
    /\ UNCHANGED <<builder_kind, phase, stack_info, boot_signal, boot_env, state, accepted,
                   wrap_index, reruns, after_first, cli_vars>>

\* The builder asks the wrap class whether to include it and registers what
\* it yields.
WrapShouldInclude ==
    /\ phase = "build"
    /\ Len(pipeline) < MaxUnits
    /\ LET yielded == SortJustificationsWrap_should_include(builder_kind, pipeline)
       IN /\ pipeline' = register(pipeline, WrapUnit, yielded)
          /\ last_call' = [unit |-> WrapUnit,
                           was_included |-> is_included(pipeline, WrapUnit),
                           is_adviser |-> is_adviser_pipeline(builder_kind),
                           yielded |-> yielded,
                           before |-> pipeline]
    /\ UNCHANGED <<builder_kind, phase, stack_info, boot_signal, boot_env, state, accepted,
                   wrap_index, reruns, after_first, cli_vars>>

\* The boots of the pipeline run once, in order, before any state exists; the
\* first NotAcceptable aborts the run.
RECURSIVE run_boots(_, _, _)
run_boots(n, env, info) ==
    IF n = 0 THEN [stack_info |-> info, raised |-> NoExc]
    ELSE LET r == FullySpecifiedEnvironment_run(env, info)
         IN IF r.raised # NoExc THEN r ELSE run_boots(n - 1, env, r.stack_info)

RunBoots ==
    /\ phase = "build"
    /\ \E env \in RuntimeEnvironments :
          LET r == run_boots(Instances(pipeline, BootUnit), env, stack_info)
          IN /\ stack_info' = r.stack_info
             /\ boot_signal' = r.raised
             /\ boot_env' = IF Instances(pipeline, BootUnit) >= 1 THEN Some(env) ELSE None
             /\ phase' = IF r.raised # NoExc THEN "aborted" ELSE "search"
    /\ UNCHANGED <<builder_kind, pipeline, last_call, state, accepted,
                   wrap_index, reruns, after_first, cli_vars>>

\* The search accepts a complete state; the wraps run on it next.
AcceptState ==
    /\ phase = "search"
    /\ \E st \in States :
          /\ state' = st
          /\ accepted' = st
    /\ phase' = "wraps"
    /\ wrap_index' = 0
    /\ UNCHANGED <<builder_kind, pipeline, last_call, stack_info, boot_signal, boot_env,
                   reruns, after_first, cli_vars>>

\* The next registered instance of the wrap runs on the accepted state.
RunWrap ==
    /\ phase = "wraps"
    /\ wrap_index < Instances(pipeline, WrapUnit)
    /\ IF sort_key_raises(state.justification)
       THEN /\ state' = state
            /\ phase' = "failed"
       ELSE /\ state' = SortJustificationsWrap_run(state)
            /\ phase' = phase
    /\ wrap_index' = wrap_index + 1
    /\ after_first' = IF wrap_index = 0 THEN state'.justification ELSE after_first
    /\ UNCHANGED <<builder_kind, pipeline, last_call, stack_info, boot_signal, boot_env,
                   accepted, reruns, cli_vars>>

\* Every registered wrap has run: the state is emitted.
EmitState ==
    /\ phase = "wraps"
    /\ wrap_index = Instances(pipeline, WrapUnit)
    /\ phase' = "emitted"
    /\ UNCHANGED <<builder_kind, pipeline, last_call, stack_info, boot_signal, boot_env, state,
                   accepted, wrap_index, reruns, after_first, cli_vars>>

\* SortJustificationsWrap.run applied once more to a state it has been run on.
RunWrapAgain ==
    /\ phase = "emitted"
    /\ wrap_index >= 1
    /\ reruns < MaxReruns
    /\ IF sort_key_raises(state.justification)
       THEN /\ state' = state
            /\ phase' = "failed"
       ELSE /\ state' = SortJustificationsWrap_run(state)
            /\ phase' = phase
    /\ reruns' = reruns + 1
    /\ UNCHANGED <<builder_kind, pipeline, last_call, stack_info, boot_signal, boot_env,
                   accepted, wrap_index, after_first, cli_vars>>

NextUnits ==
    \/ BootShouldInclude
    \/ WrapShouldInclude
    \/ RunBoots
    \/ AcceptState
    \/ RunWrap
    \/ EmitState
    \/ RunWrapAgain

SpecUnits == InitUnits /\ [][NextUnits]_vars

\* ------------------------------------------------------------- exceptions

\* The classes cli.py handles under "except ThothAdviserException".
AdviserExceptionClasses == {"ThothAdviserException", "InternalError"}

\* NotAcceptable, the signal of the units, is an adviser exception too.
UnitSignalClasses == {"NotAcceptable"}

\* isinstance(exc, ThothAdviserException)
is_ThothAdviserException(exc) == exc.cls \in AdviserExceptionClasses \cup UnitSignalClasses

\* isinstance(exc, InternalError)
is_InternalError(exc) == exc.cls = "InternalError"

\* isinstance(exc, SolverException): thoth.solver's class, no adviser exception.
is_SolverException(exc) == exc.cls = "SolverException"

\* f'{str(exc)} ({type(exc).__name__})': the message, then the class name.
format_justification(exc) == <<exc.msg, exc.cls>>

\* What _instantiate_project raises when it does not return a project.
InstantiateRaises ==
    { [cls |-> "ThothAdviserException", msg |-> <<"invalid Pipfile">>],
      [cls |-> "FileNotFoundError", msg |-> <<"Pipfile">>] }

\* What the calls into the project (advise, check_provenance) raise when they
\* do not return.
ProjectRaises ==
    { [cls |-> "InternalError", msg |-> <<"broken invariant">>],
      [cls |-> "ThothAdviserException", msg |-> <<"no stack found">>],
      [cls |-> "SolverException", msg |-> <<"unsolvable">>] }

\* The reports a successful project call returns: possibly empty.
RECURSIVE report_of(_)
report_of(n) ==
    IF n = 0 THEN <<>>
    ELSE Append(report_of(n - 1),
                [type |-> "INFO", justification |-> << <<"entry">>, "report" >>, stack |-> n])

Reports == {report_of(n) : n \in 0..MaxReport}

\* ------------------------------------------------ provenance and advise

\* A plausible slip: an internal error is handled like any adviser exception.
never_reraise(exc) == FALSE

\* "if isinstance(exc, InternalError): raise" under except ThothAdviserException.
reraises(exc) == is_InternalError(exc)

\* A plausible slip: the error is flagged and the report is left empty.
error_flag_only(res, exc) == [res EXCEPT !.error = Some(TRUE)]

\* The except branch of provenance and advise: the error envelope.
error_envelope(res, exc) ==
    [res EXCEPT !.error = Some(TRUE),
                !.report = << [type |-> "ERROR",
                               justification |-> format_justification(exc)] >>]

\* int(result['error'] is True)
return_code(res) == IF res.error = Some(TRUE) THEN 1 ELSE 0

\* whitelisted_sources.split(',') if whitelisted_sources else []
split_sources(text) ==
    IF text = "" THEN <<>>
    ELSE IF text = "https://pypi.org/simple" THEN <<"https://pypi.org/simple">>
    ELSE <<"https://pypi.org/simple", "https://tensorflow.pypi.thoth-station.ninja/simple">>

ProvenanceArgs ==
    [whitelisted_sources : {"", "https://pypi.org/simple",
                            "https://pypi.org/simple,https://tensorflow.pypi.thoth-station.ninja/simple"}]

AdviseArgs ==
    [runtime_environment : RuntimeEnvironments,
     recommendation_type : {"stable", "testing", "latest"},
     requirements_format : {"pipenv", "requirements"}]

\* What the try block of a command comes to: the exception it raises (NoExc
\* when it completes), result['input'] and the report.
TryOutcome(exc, input, report) == [raised |-> exc, input |-> input, report |-> report]

\* The try block of provenance.
provenance_try ==
    {TryOutcome(e, None, <<>>) : e \in InstantiateRaises}
        \cup {TryOutcome(e, Some("project"), <<>>) : e \in ProjectRaises}
        \cup {TryOutcome(NoExc, Some("project"), r) : r \in Reports}

\* project.advise: the adviser pipeline holds the boots that include
\* themselves; they run before the search, and a boot's NotAcceptable ends the
\* run.
advise_boots(env) ==
    LET pipe == register(<<>>, BootUnit,
                         FullySpecifiedEnvironment_should_include("adviser", <<>>))
    IN [pipeline |-> pipe,
        boots |-> run_boots(Instances(pipe, BootUnit), env, <<>>)]

\* The try block of advise.
advise_try(env) ==
    {TryOutcome(e, None, <<>>) : e \in InstantiateRaises}
        \cup (IF advise_boots(env).boots.raised # NoExc
              THEN {TryOutcome(advise_boots(env).boots.raised, Some("project"), <<>>)}
              ELSE {TryOutcome(e, Some("project"), <<>>) : e \in ProjectRaises}
                       \cup {TryOutcome(NoExc, Some("project"), r) : r \in Reports})

\* The output of advise in the requested format.
output_requirements(format) ==
    IF format = "pipenv"
    THEN [requirements |-> Some(<<"pipfile", "to_dict">>),
          requirements_locked |-> Some(<<"pipfile_lock", "to_dict">>)]
    ELSE [requirements |-> Some(<<"pipfile", "to_requirements_file">>),
          requirements_locked |-> Some(<<"pipfile_lock", "to_requirements_file">>)]

\* What a command comes to after its try statement: the envelope, and whether
\* the command goes on to print it or the exception leaves it.
Handled(res, exc) ==
    IF exc = NoExc THEN [result |-> res, uncaught |-> NoExc]
    ELSE IF ~is_ThothAdviserException(exc) THEN [result |-> res, uncaught |-> exc]
    ELSE IF reraises(exc) THEN [result |-> res, uncaught |-> exc]
    ELSE [result |-> error_envelope(res, exc), uncaught |-> NoExc]

\* The command ends: print_command_result and the return, or the exception.
Finish(h) ==
    IF h.uncaught # NoExc
    THEN /\ result' = h.result
         /\ uncaught' = h.uncaught
         /\ pc' = "raised"
         /\ UNCHANGED <<printed, ret>>
    ELSE /\ result' = h.result
         /\ uncaught' = NoExc
         /\ printed' = Append(printed, h.result)
         /\ ret' = Some(return_code(h.result))
         /\ pc' = "returned"

provenance ==
    /\ cmd = "provenance"
    /\ pc = "start"
    /\ \E o \in provenance_try :
          LET result0 == [error |-> None,
                          report |-> <<>>,
                          parameters |-> [whitelisted_indexes |->
                                              split_sources(args.whitelisted_sources)],
                          input |-> None]
              result1 == [result0 EXCEPT !.input = o.input]
              result2 == IF o.raised = NoExc
                         THEN [result1 EXCEPT !.error = Some(FALSE), !.report = o.report]
                         ELSE result1
          IN /\ raised' = o.raised
             /\ Finish(Handled(result2, o.raised))
    /\ UNCHANGED <<cmd, args, dm, computed, walker_calls, sink_calls, fs_dirs, unit_vars>>

advise ==
    /\ cmd = "advise"
    /\ pc = "start"
    /\ \E o \in advise_try(args.runtime_environment) :
          LET result0 == [error |-> None,
                          report |-> <<>>,
                          parameters |-> [runtime_environment |-> args.runtime_environment,
                                          recommendation_type |-> args.recommendation_type,
                                          requirements_format |-> args.requirements_format],
                          input |-> None,
                          output |-> [requirements |-> None, requirements_locked |-> None]]
              result1 == [result0 EXCEPT !.input = o.input]
              result2 == IF o.raised # NoExc THEN result1
                         ELSE IF o.report = <<>> THEN [result1 EXCEPT !.error = Some(FALSE)]
                         ELSE [result1 EXCEPT
                                  !.error = Some(FALSE),
                                  !.report = o.report,
                                  !.output = output_requirements(args.requirements_format)]
              boots == advise_boots(args.runtime_environment)
          IN /\ raised' = o.raised
             /\ IF o.input # None
                THEN /\ pipeline' = boots.pipeline
                     /\ stack_info' = boots.boots.stack_info
                     /\ boot_signal' = boots.boots.raised
                     /\ boot_env' = Some(args.runtime_environment)
                ELSE UNCHANGED <<pipeline, stack_info, boot_signal, boot_env>>
             /\ Finish(Handled(result2, o.raised))
    /\ UNCHANGED <<cmd, args, dm, computed, walker_calls, sink_calls, fs_dirs,
                   builder_kind, last_call, phase, state, accepted, wrap_index, reruns,
                   after_first>>

\* ------------------------------------------------------ dependency-monkey

\* --count as given: a string of character codes ("" when omitted).
CountArgs ==
    {<<>>, <<48>>, <<45, 49>>, <<120>>} \cup {<<48 + n>> : n \in 1..MaxCount}

IsDigit(c) == c \in 48..57

\* Whether int(text) returns: an optional minus sign, then digits.
is_int_literal(text) ==
    LET digits == IF text # <<>> /\ text[1] = 45 THEN Tail(text) ELSE text
    IN digits # <<>> /\ \A i \in 1..Len(digits) : IsDigit(digits[i])

RECURSIVE digits_value(_)
digits_value(d) ==
    IF d = <<>> THEN 0 ELSE 10 * digits_value(SubSeq(d, 1, Len(d) - 1)) + (d[Len(d)] - 48)

\* int(text)
str_to_int(text) ==
    IF text[1] = 45 THEN 0 - digits_value(Tail(text)) ELSE digits_value(text)

\* --stack-output as given.
StackOutputs == {"https://amun.example/api/v1", "http://amun.example/api/v1", "-",
                 "stacks", "existing"}

\* stack_output.startswith(('https://', 'http://'))
startswith_http(text) ==
    text \in {"https://amun.example/api/v1", "http://amun.example/api/v1"}

\* --context as given ("" when omitted).
ContextArgs == {"", "{", "{}", "[]"}

\* Whether json.loads(text) returns.
json_valid(text) == text \in {"{}", "[]"}

\* json.loads(text)
json_loads(text) == IF text = "{}" THEN [type |-> "dict"] ELSE [type |-> "list"]

\* The directories that exist before the command runs.
InitialDirs == {<<"existing">>}

\* os.path.isdir(path)
isdir(dirs, path) == <<path>> \in dirs

\* What walking the dependency graph raises when it fails.
WalkRaises ==
    { [cls |-> "SolverException", msg |-> <<"unsolvable">>],
      [cls |-> "InternalError", msg |-> <<"broken invariant">>] }

\* What _fill_package_digests raises when it fails.
DigestRaises == { [cls |-> "IndexError", msg |-> <<"no warehouse">>] }

DmArgs ==
    [count : CountArgs,
     stack_output : StackOutputs,
     context : ContextArgs,
     dry_run : BOOLEAN,
     space : 0..MaxSpace,                       \* combinations the walker yields
     walk_end : {NoExc} \cup WalkRaises]        \* how the walk ends after them

\* A plausible slip: the cap is compared with > instead of >=.
cap_passed(count, n) == count # None /\ n > count[1]

\* "count is not None and computed >= count"
cap_reached(count, n) == count # None /\ n >= count[1]

\* A plausible slip: the output directory is made before the context is
\* looked at.
directory_first(a, count, dirs) ==
    IF a.context # ""
    THEN [ret |-> Some(2), dirs |-> dirs \cup {<<a.stack_output>>}, dm |-> NoLocals]
    ELSE [ret |-> None,
          dirs |-> dirs \cup {<<a.stack_output>>},
          dm |-> [count |-> count, context |-> a.context, output_function |-> "directory"]]

\* The filesystem branch of the output selection.
directory_output(a, count, dirs) ==
    IF a.context # ""
    THEN [ret |-> Some(2), dirs |-> dirs, dm |-> NoLocals]
    ELSE [ret |-> None,
          dirs |-> IF ~isdir(dirs, a.stack_output)
                   THEN dirs \cup {<<a.stack_output>>} ELSE dirs,
          dm |-> [count |-> count, context |-> a.context, output_function |-> "directory"]]

\* The argument checks of dependency_monkey and the choice of the output
\* function: a return code, or the locals the run goes on with.
select_output(a, count, dirs) ==
    IF count # None /\ count[1] <= 0
    THEN [ret |-> Some(3), dirs |-> dirs, dm |-> NoLocals]
    ELSE IF startswith_http(a.stack_output)
    THEN IF a.context # ""
         THEN IF ~json_valid(a.context)
              THEN [ret |-> Some(1), dirs |-> dirs, dm |-> NoLocals]
              ELSE [ret |-> None, dirs |-> dirs,
                    dm |-> [count |-> count, context |-> json_loads(a.context),
                            output_function |-> "amun"]]
         ELSE [ret |-> None, dirs |-> dirs,
               dm |-> [count |-> count, context |-> [type |-> "dict"],
                       output_function |-> "amun"]]
    ELSE IF a.stack_output = "-"
    THEN [ret |-> None, dirs |-> dirs,
          dm |-> [count |-> count, context |-> a.context, output_function |-> "stdout"]]
    ELSE directory_output(a, count, dirs)

\* The result envelope dependency_monkey starts from.
dm_result(a, d) ==
    [error |-> Some(FALSE),
     report |-> <<>>,
     parameters |-> [context |-> d.context, stack_output |-> a.stack_output,
                     dry_run |-> a.dry_run, count |-> d.count],
     input |-> None,
     output |-> <<>>,
     computed |-> None]

\* What an exception raised inside dependency_monkey's try comes to: a
\* SolverException flags the error, anything else leaves the command.
dm_except(res, exc) ==
    IF is_SolverException(exc)
    THEN [result |-> [res EXCEPT !.error = Some(TRUE)], uncaught |-> NoExc]
    ELSE [result |-> res, uncaught |-> exc]

\* dependency_monkey up to the loop: the project, the arguments, the output
\* function, the envelope and the dependency graph.  The seed and the decision
\* function only steer the walker, whose answers are args.space and
\* args.walk_end.
dependency_monkey_begin ==
    /\ cmd = "dependency_monkey"
    /\ pc = "start"
    /\ \E inst \in {NoExc} \cup InstantiateRaises, graph \in {NoExc} \cup WalkRaises :
          IF inst # NoExc
          THEN /\ raised' = inst
               /\ uncaught' = inst
               /\ pc' = "raised"
               /\ UNCHANGED <<result, ret, dm, computed, fs_dirs>>
          ELSE IF args.count # <<>> /\ ~is_int_literal(args.count)
          THEN /\ raised' = [cls |-> "ValueError", msg |-> <<"invalid literal for int()">>]
               /\ uncaught' = raised'
               /\ pc' = "raised"
               /\ UNCHANGED <<result, ret, dm, computed, fs_dirs>>
          ELSE LET count == IF args.count # <<>> THEN Some(str_to_int(args.count)) ELSE None
                   sel == select_output(args, count, fs_dirs)
               IN IF sel.ret # None
                  THEN /\ ret' = sel.ret
                       /\ fs_dirs' = sel.dirs
                       /\ pc' = "returned"
                       /\ UNCHANGED <<result, raised, uncaught, dm, computed>>
                  ELSE /\ fs_dirs' = sel.dirs
                       /\ dm' = sel.dm
                       /\ computed' = 0
                       /\ raised' = graph
                       /\ LET h == IF graph = NoExc
                                   THEN [result |-> dm_result(args, sel.dm),
                                         uncaught |-> NoExc]
                                   ELSE dm_except(dm_result(args, sel.dm), graph)
                          IN /\ result' = h.result
                             /\ uncaught' = h.uncaught
                             /\ pc' = IF h.uncaught # NoExc THEN "raised"
                                      ELSE IF graph # NoExc THEN "print"
                                      ELSE "loop"
                       /\ UNCHANGED ret
    /\ UNCHANGED <<cmd, args, printed, walker_calls, sink_calls, unit_vars>>

\* A plausible slip: a failed Amun submission is let out of the wrapper
\* instead of being logged.
output_function_reraising(d, a, n, dirs, amun_ok) ==
    IF d.output_function = "amun"
    THEN IF d.context.type # "dict"
         THEN [entry |-> None, dirs |-> dirs,
               raised |-> [cls |-> "TypeError", msg |-> <<"context is no dict">>]]
         ELSE [entry |-> IF amun_ok THEN Some(<<"inspection", n>>) ELSE None,
               dirs |-> dirs,
               raised |-> IF amun_ok THEN NoExc
                          ELSE [cls |-> "ConnectionError", msg |-> <<"amun">>]]
    ELSE IF d.output_function = "stdout"
    THEN [entry |-> None, dirs |-> dirs, raised |-> NoExc]
    ELSE [entry |-> Some(<<a.stack_output, n>>),
          dirs |-> dirs \cup {<<a.stack_output, n>>},
          raised |-> NoExc]

\* What the output function does with the computed-th stack: the entry it
\* returns, the directories it leaves, and the exception it lets out.
\* Amun answers with an inspection id or the submission fails.
output_function(d, a, n, dirs, amun_ok) ==
    IF d.output_function = "amun"
    THEN IF d.context.type # "dict"
         THEN [entry |-> None, dirs |-> dirs,
               raised |-> [cls |-> "TypeError", msg |-> <<"context is no dict">>]]
         ELSE [entry |-> IF amun_ok THEN Some(<<"inspection", n>>) ELSE None,
               dirs |-> dirs, raised |-> NoExc]
    ELSE IF d.output_function = "stdout"
    THEN [entry |-> None, dirs |-> dirs, raised |-> NoExc]
    ELSE [entry |-> Some(<<a.stack_output, n>>),
          dirs |-> dirs \cup {<<a.stack_output, n>>},
          raised |-> NoExc]

\* One round of the loop: the walker is advanced; a combination it yields is
\* counted, its digests are filled, and unless this is a dry run it is handed
\* to the output function; the loop ends at the cap, when the walker is
\* exhausted or on an exception.
dependency_monkey_iterate ==
    /\ cmd = "dependency_monkey"
    /\ pc = "loop"
    /\ walker_calls' = walker_calls + 1
    /\ IF walker_calls < args.space
       THEN \E digests \in {NoExc} \cup DigestRaises, amun_ok \in BOOLEAN :
               LET n == computed + 1
                   out == output_function(dm, args, n, fs_dirs, amun_ok)
               IN /\ computed' = n
                  /\ IF digests # NoExc
                     THEN /\ raised' = digests
                          /\ uncaught' = dm_except(result, digests).uncaught
                          /\ result' = dm_except(result, digests).result
                          /\ pc' = IF uncaught' # NoExc THEN "raised" ELSE "print"
                          /\ UNCHANGED <<sink_calls, fs_dirs>>
                     ELSE IF args.dry_run
                     THEN /\ result' = IF cap_reached(dm.count, n)
                                       THEN [result EXCEPT !.computed = Some(n)]
                                       ELSE result
                          /\ pc' = IF cap_reached(dm.count, n) THEN "print" ELSE "loop"
                          /\ UNCHANGED <<raised, uncaught, sink_calls, fs_dirs>>
                     ELSE /\ sink_calls' = Append(sink_calls,
                                                  [function |-> dm.output_function,
                                                   count |-> n,
                                                   entry |-> out.entry])
                          /\ fs_dirs' = out.dirs
                          /\ IF out.raised # NoExc
                             THEN /\ raised' = out.raised
                                  /\ uncaught' = dm_except(result, out.raised).uncaught
                                  /\ result' = dm_except(result, out.raised).result
                                  /\ pc' = IF uncaught' # NoExc THEN "raised" ELSE "print"
                             ELSE LET result1 ==
                                          IF out.entry # None
                                          THEN [result EXCEPT
                                                   !.output = Append(@, out.entry[1])]
                                          ELSE result
                                  IN /\ result' = IF cap_reached(dm.count, n)
                                                  THEN [result1 EXCEPT !.computed = Some(n)]
                                                  ELSE result1
                                     /\ pc' = IF cap_reached(dm.count, n)
                                              THEN "print" ELSE "loop"
                                     /\ UNCHANGED <<raised, uncaught>>
       ELSE /\ raised' = args.walk_end
            /\ IF args.walk_end = NoExc
               THEN /\ result' = [result EXCEPT !.computed = Some(computed)]
                    /\ uncaught' = NoExc
                    /\ pc' = "print"
               ELSE /\ result' = dm_except(result, args.walk_end).result
                    /\ uncaught' = dm_except(result, args.walk_end).uncaught
                    /\ pc' = IF uncaught' # NoExc THEN "raised" ELSE "print"
            /\ UNCHANGED <<computed, sink_calls, fs_dirs>>
    /\ UNCHANGED <<cmd, args, ret, printed, dm, unit_vars>>

\* After the try statement: print_command_result and the return.
dependency_monkey_finish ==
    /\ cmd = "dependency_monkey"
    /\ pc = "print"
    /\ printed' = Append(printed, result)
    /\ ret' = Some(return_code(result))
    /\ pc' = "returned"
    /\ UNCHANGED <<cmd, args, result, raised, uncaught, dm, computed, walker_calls,
                   sink_calls, fs_dirs, unit_vars>>

\* ------------------------------------------------------- the command line

Init ==
    /\ \/ cmd = "provenance" /\ args \in ProvenanceArgs
       \/ cmd = "advise" /\ args \in AdviseArgs
       \/ cmd = "dependency_monkey" /\ args \in DmArgs
    /\ pc = "start"
    /\ result = NoResult
    /\ raised = NoExc
    /\ uncaught = NoExc
    /\ ret = None
    /\ printed = <<>>
    /\ dm = NoLocals
    /\ computed = 0
    /\ walker_calls = 0
    /\ sink_calls = <<>>
    /\ fs_dirs = InitialDirs
    /\ builder_kind = "adviser"
    /\ pipeline = <<>>
    /\ last_call = NoCall
    /\ phase = "build"
    /\ stack_info = <<>>
    /\ boot_signal = NoExc
    /\ boot_env = None
    /\ state = NoState
    /\ accepted = NoState
    /\ wrap_index = 0
    /\ reruns = 0
    /\ after_first = <<>>

Next ==
    \/ provenance
    \/ advise
    \/ dependency_monkey_begin
    \/ dependency_monkey_iterate
    \/ dependency_monkey_finish

Spec == Init /\ [][Next]_vars

\* ------------------------------------------------------ claims on the units

IsSortedByKey(log) ==
    \A i \in 1..(Len(log) - 1) : ~TupleLess(sort_key(log[i + 1]), sort_key(log[i]))

\* C1: SortJustificationsWrap.run is idempotent: once the wrap has run on a
\* state, its justification log is non-decreasing by the key (package_name or
\* "" when absent, type, message), and every further run leaves the log in the
\* order the first run produced.
C1_SortIdempotent ==
    /\ wrap_index >= 1 => IsSortedByKey(state.justification)
    /\ reruns >= 1 => state.justification = after_first

\* C1 witness: the wrap ran twice on a log that was out of order and holds two
\* different entries with equal keys (package_name "" and package_name absent).
C1_Witness ==
    /\ wrap_index = 1
    /\ reruns = 1
    /\ accepted.justification =
          << [package_name |-> S_a, type |-> S_ERROR, message |-> S_m1],
             [package_name |-> S_empty, type |-> S_ERROR, message |-> S_m1],
             [type |-> S_ERROR, message |-> S_m1] >>
    /\ state.justification =
          << [package_name |-> S_empty, type |-> S_ERROR, message |-> S_m1],
             [type |-> S_ERROR, message |-> S_m1],
             [package_name |-> S_a, type |-> S_ERROR, message |-> S_m1] >>

\* C8: a should_include call of SortJustificationsWrap made when the class is
\* already included yields nothing and adds no instance; the wrap is run on an
\* accepted state once per registered instance, never more; and with no
\* instance registered the state's justification log and score stay as accepted.
C8_NoYieldNoMutation ==
    /\ (last_call.unit = WrapUnit /\ last_call.was_included)
          => (last_call.yielded = <<>> /\ pipeline = last_call.before)
    /\ last_call.yielded = <<>> => pipeline = last_call.before
    /\ wrap_index <= Instances(pipeline, WrapUnit)
    /\ Instances(pipeline, WrapUnit) <= 1
    /\ phase = "emitted" => wrap_index = Instances(pipeline, WrapUnit)
    /\ (phase \in {"wraps", "emitted"} /\ Instances(pipeline, WrapUnit) = 0)
          => (state = accepted /\ wrap_index = 0)
    /\ state.score = accepted.score

\* C8 witness: the last call found the wrap included and yielded nothing, and
\* the emitted state was sorted by exactly one run.
C8_Witness ==
    /\ phase = "emitted"
    /\ last_call.unit = WrapUnit
    /\ last_call.was_included
    /\ last_call.yielded = <<>>
    /\ wrap_index = 1
    /\ reruns = 0
    /\ state.justification # accepted.justification

C10_WrapAdviserOnce ==
    last_call.unit = WrapUnit =>
        last_call.yielded = (IF last_call.is_adviser /\ ~last_call.was_included
                             THEN <<EmptyParams>> ELSE <<>>)

\* ------------------------------------------------ claims on the workflows

\* C2: when the boot FullySpecifiedEnvironment signals NotAcceptable (advise
\* ran its pipeline on a runtime environment that is not fully specified), the
\* advise run has no accepted result (output requirements and
\* requirements_locked stay None) and its report is exactly one entry, the
\* boot's signal, for every recommendation type and output format.
C2_BootRejectsRun ==
    (/\ cmd = "advise"
     /\ pc # "start"
     /\ result.input # None
     /\ ~is_fully_specified(args.runtime_environment))
        => /\ boot_signal.cls = "NotAcceptable"
           /\ raised = boot_signal
           /\ result.error = Some(TRUE)
           /\ result.output = [requirements |-> None, requirements_locked |-> None]
           /\ Len(result.report) = 1
           /\ result.report[1].justification = <<boot_signal.msg, "NotAcceptable">>
           /\ printed = <<result>>

\* C2 witness: advise returned after the boot rejected an environment whose
\* Python version is unknown, under recommendation type "latest".
C2_Witness ==
    /\ cmd = "advise"
    /\ pc = "returned"
    /\ args.recommendation_type = "latest"
    /\ args.runtime_environment =
          [os_name |-> Some("rhel"), os_version |-> Some("8"), python_version |-> None]
    /\ boot_signal.cls = "NotAcceptable"
    /\ Len(stack_info) = 1
    /\ Len(result.report) = 1
    /\ result.output.requirements = None

\* C3: an InternalError raised while provenance, advise or dependency-monkey
\* runs leaves the command uncaught: the command does not return, nothing is
\* printed, and the envelope's error flag is not set.
C3_InternalErrorPropagates ==
    is_InternalError(raised)
        => /\ uncaught = raised
           /\ pc = "raised"
           /\ ret = None
           /\ printed = <<>>
           /\ result.error # Some(TRUE)
           /\ \A i \in 1..Len(result.report) : result.report[i].type # "ERROR"

\* C3 witness: project.advise raised an InternalError and it left advise.
C3_Witness ==
    /\ cmd = "advise"
    /\ pc = "raised"
    /\ result.input # None
    /\ raised.cls = "InternalError"
    /\ uncaught.cls = "InternalError"

\* C4: a SolverException raised during the dependency-monkey workflow is
\* caught at the workflow boundary and reported: the error flag is set, the
\* report holds an entry whose justification text carries the exception's
\* class name and message, and the stacks collected before stay in the output.
C4_SolverExceptionReported ==
    (cmd = "dependency_monkey" /\ is_SolverException(raised) /\ pc = "returned")
        => /\ result.error = Some(TRUE)
           /\ \E i \in 1..Len(result.report) :
                 result.report[i].justification = <<raised.msg, "SolverException">>
           /\ printed = <<result>>
           /\ dm.output_function = "directory" => Len(result.output) = Len(sink_calls)

\* C5: with a cap N >= 1 the dependency-monkey never counts more than N
\* combinations, never advances the walker more than N times, never hands
\* more than N combinations to the sink, and a run that ends without an
\* exception has counted exactly min(N, the combinations the walker yields).
C5_CapStopsEnumeration ==
    (cmd = "dependency_monkey" /\ dm.count # None)
        => /\ dm.count[1] >= 1
           /\ computed <= dm.count[1]
           /\ walker_calls <= dm.count[1]
           /\ Len(sink_calls) <= dm.count[1]
           /\ (pc \in {"print", "returned"} /\ raised = NoExc)
                 => /\ computed = Min(dm.count[1], args.space)
                    /\ result.computed = Some(computed)

\* C5 witness: a run capped at 2 over a walker with 3 combinations returned
\* after 2 combinations, both handed to the sink.
C5_Witness ==
    /\ cmd = "dependency_monkey"
    /\ pc = "returned"
    /\ dm.count = Some(2)
    /\ args.space = 3
    /\ computed = 2
    /\ walker_calls = 2
    /\ Len(sink_calls) = 2

InvalidCount == is_int_literal(args.count) /\ str_to_int(args.count) <= 0

InvalidContext ==
    /\ args.stack_output \in {"https://amun.example/api/v1", "http://amun.example/api/v1"}
    /\ args.context = "{"

ConflictingOutput ==
    /\ args.stack_output \in {"stacks", "existing"}
    /\ args.context # ""

\* C6: dependency-monkey returns 3 exactly for a non-positive count, else 2
\* exactly for a context given with filesystem output, else 1 for an
\* unparsable context sent to Amun; 0 exactly when the arguments are valid and
\* the run ended with error false, and never 0 when error is true; on the
\* exits caused by the arguments no stack went to a sink, no directory was
\* made and nothing was printed.
C6_ExitCodes ==
    (cmd = "dependency_monkey" /\ pc = "returned")
        => /\ ret = Some(3) <=> InvalidCount
           /\ ~InvalidCount => (ret = Some(2) <=> ConflictingOutput)
           /\ (~InvalidCount /\ InvalidContext) => ret = Some(1)
           /\ ret = Some(1) => (InvalidContext \/ result.error = Some(TRUE))
           /\ ret = Some(0) <=> (/\ ~InvalidCount
                                 /\ ~InvalidContext
                                 /\ ~ConflictingOutput
                                 /\ result.error = Some(FALSE))
           /\ result.error = Some(TRUE) => ret \notin {None, Some(0)}
           /\ (InvalidCount \/ InvalidContext \/ ConflictingOutput)
                 => /\ sink_calls = <<>>
                    /\ walker_calls = 0
                    /\ fs_dirs = InitialDirs
                    /\ printed = <<>>

\* C6 witness: a context given together with a directory that does not exist
\* yet: exit 2, and the directory still does not exist.
C6_Witness ==
    /\ cmd = "dependency_monkey"
    /\ pc = "returned"
    /\ args.stack_output = "stacks"
    /\ args.context = "{}"
    /\ args.count = <<50>>
    /\ ret = Some(2)
    /\ <<"stacks">> \notin fs_dirs

\* The exception was captured at the boundary of the command: one ERROR entry
\* with its message and class name, error set, the envelope printed, and a
\* nonzero return.
Captured ==
    /\ pc = "returned"
    /\ uncaught = NoExc
    /\ result.error = Some(TRUE)
    /\ result.report = << [type |-> "ERROR", justification |-> <<raised.msg, raised.cls>>] >>
    /\ printed = <<result>>
    /\ ret # None
    /\ ret[1] # 0

C11_BootSucceedsOrRejects ==
    [][ (phase = "build" /\ phase' # "build" /\ Instances(pipeline, BootUnit) >= 1)
            => IF is_fully_specified(boot_env'[1])
               THEN /\ boot_signal' = NoExc
                    /\ stack_info' = stack_info
                    /\ phase' = "search"
               ELSE /\ Len(stack_info') = Len(stack_info) + 1
                    /\ SubSeq(stack_info', 1, Len(stack_info)) = stack_info
                    /\ stack_info'[Len(stack_info')].type = "ERROR"
                    /\ boot_signal'.cls = "NotAcceptable"
                    /\ boot_signal'.msg = stack_info'[Len(stack_info')].message
                    /\ phase' = "aborted" ]_vars

\* C11 witness: the boot rejected an environment without an OS version; its
\* ERROR entry follows the entry stack_info held before.
C11_Witness ==
    /\ phase = "aborted"
    /\ boot_env = Some([os_name |-> Some("rhel"), os_version |-> None,
                        python_version |-> Some("3.8")])
    /\ Len(stack_info) = 2
    /\ stack_info[1].type = "INFO"
    /\ stack_info[2].type = "ERROR"
    /\ boot_signal = [cls |-> "NotAcceptable", msg |-> stack_info[2].message]

\* How often an entry occurs in a log.
Occurrences(e, log) == Cardinality({i \in 1..Len(log) : log[i] = e})

\* C13: SortJustificationsWrap.run only permutes the justification log: the
\* log holds every entry as often as it did when the state was accepted, the
\* score, the resolved mapping and the unresolved sequence are as accepted,
\* and the wrap does not fail on a state whose entries all carry type and
\* message.
C13_RunOnlyPermutes ==
    phase \in {"wraps", "emitted", "failed"}
        => /\ Len(state.justification) = Len(accepted.justification)
           /\ \A i \in 1..Len(accepted.justification) :
                 Occurrences(accepted.justification[i], state.justification)
                     = Occurrences(accepted.justification[i], accepted.justification)
           /\ state.score = accepted.score
           /\ state.resolved = accepted.resolved
           /\ state.unresolved = accepted.unresolved
           /\ (\A i \in 1..Len(accepted.justification) :
                  {"type", "message"} \subseteq DOMAIN accepted.justification[i])
                 => phase # "failed"

\* C13 witness: the wrap reordered a log that holds the same entry twice, and
\* both copies are still there.
C13_Witness ==
    /\ phase = "emitted"
    /\ wrap_index = 1
    /\ accepted.justification =
          << [package_name |-> S_a, type |-> S_INFO, message |-> S_m1],
             [type |-> S_WARNING, message |-> S_m2],
             [package_name |-> S_a, type |-> S_INFO, message |-> S_m1] >>
    /\ state.justification =
          << [type |-> S_WARNING, message |-> S_m2],
             [package_name |-> S_a, type |-> S_INFO, message |-> S_m1],
             [package_name |-> S_a, type |-> S_INFO, message |-> S_m1] >>
    /\ state.score = 1

\* C12: in a dependency-monkey dry run the output function is never called
\* and the result's output list stays empty, while the computed count that is
\* reported equals the number of combinations the walker yielded before the
\* run stopped, which is at most the cap when one is given.
C12_DryRunCountsOnly ==
    (cmd = "dependency_monkey" /\ args.dry_run /\ dm.output_function # "none")
        => /\ sink_calls = <<>>
           /\ result.output = <<>>
           /\ dm.count # None => Min(walker_calls, args.space) <= dm.count[1]
           /\ printed # <<>>
                 => printed[Len(printed)].computed = Some(Min(walker_calls, args.space))

\* The last step handed a combination to the Amun wrapper, which submitted it
\* and returned no inspection id.
AmunSubmissionFailed ==
    /\ cmd = "dependency_monkey"
    /\ pc = "loop"
    /\ dm.output_function = "amun"
    /\ dm.context.type = "dict"
    /\ Len(sink_calls') = Len(sink_calls) + 1
    /\ sink_calls'[Len(sink_calls')].entry = None

\* C14: at every point of a dependency-monkey run the result's output list
\* holds at most as many entries as combinations were counted, and the k-th
\* combination yielded is handed to the output function with number k; a
\* failed Amun submission does not abort the run, records no output entry and
\* counts toward the cap.
C14_NumberedAndCounted ==
    /\ [](cmd = "dependency_monkey" /\ dm.output_function # "none"
             => /\ Len(result.output) <= computed
                /\ Len(sink_calls) <= computed
                /\ \A k \in 1..Len(sink_calls) : sink_calls[k].count = k
                /\ (~args.dry_run /\ raised = NoExc) => Len(sink_calls) = computed)
    /\ [][AmunSubmissionFailed
             => /\ uncaught' = NoExc
                /\ raised' = NoExc
                /\ result'.output = result.output
                /\ result'.error = result.error
                /\ computed' = computed + 1
                /\ pc' = IF dm.count # None /\ computed' >= dm.count[1]
                         THEN "print" ELSE "loop"]_vars

\* C14 witness: the first of two submissions failed, the second one was
\* recorded, and the run ended at the cap of two.
C14_Witness ==
    /\ cmd = "dependency_monkey"
    /\ pc = "returned"
    /\ dm.count = Some(2)
    /\ computed = 2
    /\ sink_calls = << [function |-> "amun", count |-> 1, entry |-> None],
                       [function |-> "amun", count |-> 2,
                        entry |-> Some(<<"inspection", 2>>)] >>
    /\ result.output = << <<"inspection", 2>> >>
    /\ result.computed = Some(2)
    /\ ret = Some(0)

====
